---- MODULE Spec2Model ----
(***************************************************************************)
(* Model of web/src/locales/locale_updater.py: the flatten/unflatten       *)
(* transform, the locale code resolver and the interactive merge run.      *)
(*                                                                         *)
(* Representation.  A Python str that the code takes apart (a key, a       *)
(* composite key, a filename) is a sequence of one-character strings, so   *)
(* that joining and splitting are computed.  A str that the code only      *)
(* copies and compares with "" (a translation) is a TLA+ string.  A dict   *)
(* is the sequence of its items <<key, value>> in insertion order with     *)
(* unique keys; a value of a nested document is <<"str", s>> or            *)
(* <<"dict", items>>.                                                      *)
(***************************************************************************)
EXTENDS Integers, Sequences, FiniteSets, TLC

VARIABLES pc,
          nested_json, flattened_dict, reordered, unflat, unflat2,
          json_filename, code_name,
          ref, tgt, ref_flat, tgt_flat, missing_keys, todo, key,
          proposal_google, typed, proposal, calls, failures, prompts, processed,
          out_file, writes, exit_status

flatVars == <<nested_json, flattened_dict, reordered, unflat, unflat2>>
codeVars == <<json_filename, code_name>>
runVars  == <<ref, tgt, ref_flat, tgt_flat, missing_keys, todo, key,
              proposal_google, typed, proposal, calls, failures, prompts, processed,
              out_file, writes, exit_status>>
vars == <<pc, flatVars, codeVars, runVars>>

----------------------------------------------------------------------------
(* Bounds *)

MaxNodes == 3
MaxEntries == 2
MaxParts == 2
MaxRunNodes == 3

sep == ":"

KeyNames == {<<>>, <<"a">>, <<"b">>}
SepKeyNames == {<<":">>}
Texts == {"x", "y"}
FlatTexts == {"x"}
RunKeyNames == {<<>>, <<"a">>, <<"b">>}
RefTexts == {"x"}
TgtTexts == {"y"}
Candidates == {"t"}
Inputs == {"", "u"}

----------------------------------------------------------------------------
(* Python dict and str primitives *)

StrNode(s) == <<"str", s>>
DictNode(items) == <<"dict", items>>
IsDict(value) == value[1] = "dict"

DictKeys(items) == {items[i][1] : i \in 1..Len(items)}
DictHas(items, k) == \E i \in 1..Len(items) : items[i][1] = k
DictGet(items, k) == items[CHOOSE i \in 1..Len(items) : items[i][1] = k][2]

\* d[k] = v : an existing key keeps its position, a new key goes last
DictSet(items, k, v) ==
    IF DictHas(items, k)
    THEN [i \in 1..Len(items) |-> IF items[i][1] = k THEN <<k, v>> ELSE items[i]]
    ELSE Append(items, <<k, v>>)

\* d |= other
RECURSIVE DictUpdate(_, _)
DictUpdate(items, other) ==
    IF other = <<>> THEN items
    ELSE DictUpdate(DictSet(items, other[1][1], other[1][2]), Tail(other))

\* s.split(c)
RECURSIVE SplitFrom(_, _, _)
SplitFrom(s, c, cur) ==
    IF s = <<>> THEN <<cur>>
    ELSE IF Head(s) = c THEN <<cur>> \o SplitFrom(Tail(s), c, <<>>)
    ELSE SplitFrom(Tail(s), c, Append(cur, Head(s)))

Split(s, c) == SplitFrom(s, c, <<>>)

\* dict == dict on nested documents: same keys, equal values, any order
RECURSIVE DictEq(_, _)
DictEq(a, b) ==
    /\ DictKeys(a) = DictKeys(b)
    /\ \A k \in DictKeys(a) :
          LET va == DictGet(a, k)
              vb == DictGet(b, k)
          IN  /\ va[1] = vb[1]
              /\ IF IsDict(va) THEN DictEq(va[2], vb[2]) ELSE va[2] = vb[2]

----------------------------------------------------------------------------
(* Flattener *)

RECURSIVE flatten_json(_, _)
RECURSIVE FlattenLoop(_, _, _, _)
FlattenLoop(items, parent_key, i, acc) ==
    IF i > Len(items) THEN acc
    ELSE LET k == items[i][1]
             value == items[i][2]
             new_key == IF parent_key # <<>> THEN parent_key \o <<sep>> \o k ELSE k
         IN  FlattenLoop(items, parent_key, i + 1,
                 IF IsDict(value)
                 THEN DictUpdate(acc, flatten_json(value[2], new_key))
                 ELSE DictSet(acc, new_key, value[2]))

flatten_json(items, parent_key) == FlattenLoop(items, parent_key, 1, <<>>)

Ok(x) == <<"ok", x>>
TypeError == <<"TypeError">>
None == <<"None">>
IsOk(r) == r[1] = "ok"

\* the walk without the test "part not in current": an intermediate dict
\* is made anew for every composite key
RECURSIVE SetPathFresh(_, _, _)
SetPathFresh(current, parts, value) ==
    IF Len(parts) = 1
    THEN Ok(DictSet(current, parts[1], StrNode(value)))
    ELSE LET r == SetPathFresh(<<>>, Tail(parts), value)
         IN  Ok(DictSet(current, Head(parts), DictNode(r[2])))

\* the walk of one composite key; current is the items of a dict
RECURSIVE SetPath(_, _, _)
SetPath(current, parts, value) ==
    IF Len(parts) = 1
    THEN Ok(DictSet(current, parts[1], StrNode(value)))
    ELSE LET part == Head(parts)
             child == IF DictHas(current, part) THEN DictGet(current, part)
                      ELSE DictNode(<<>>)
         IN  IF ~IsDict(child)
             THEN TypeError
             ELSE LET r == SetPath(child[2], Tail(parts), value)
                  IN  IF IsOk(r) THEN Ok(DictSet(current, part, DictNode(r[2])))
                      ELSE TypeError

RECURSIVE UnflattenLoop(_, _, _)
UnflattenLoop(flat, i, nested) ==
    IF i > Len(flat) THEN Ok(nested)
    ELSE LET r == SetPath(nested, Split(flat[i][1], sep), flat[i][2])
         IN  IF IsOk(r) THEN UnflattenLoop(flat, i + 1, r[2]) ELSE TypeError

unflatten_json(flat) == UnflattenLoop(flat, 1, <<>>)

----------------------------------------------------------------------------
(* Input domains *)

RECURSIVE DictsUpTo(_, _, _)
NodesUpTo(K, T, n) == {StrNode(t) : t \in T} \cup {DictNode(s) : s \in DictsUpTo(K, T, n)}

\* the dicts over the key names K and the texts T with at most n items in
\* all, nested ones included
DictsUpTo(K, T, n) ==
    IF n = 0 THEN {<<>>}
    ELSE {<<>>} \cup
         UNION { UNION { { <<<<k, nd>>>> \o rest :
                             nd \in NodesUpTo(K, T, m),
                             rest \in {r \in DictsUpTo(K, T, n - 1 - m) : ~DictHas(r, k)} } :
                         m \in 0..(n - 1) } :
                 k \in K }

Docs == DictsUpTo(KeyNames \cup SepKeyNames, Texts, MaxNodes)

RECURSIVE NoSepKeys(_)
NoSepKeys(items) ==
    \A i \in 1..Len(items) :
        /\ \A j \in 1..Len(items[i][1]) : items[i][1][j] # sep
        /\ IsDict(items[i][2]) => NoSepKeys(items[i][2][2])

\* the composite keys made of at most n key names
RECURSIVE CompositeKeys(_)
CompositeKeys(n) ==
    IF n = 1 THEN KeyNames
    ELSE CompositeKeys(n - 1) \cup
         {p \o <<sep>> \o k : p \in CompositeKeys(n - 1), k \in KeyNames}

\* the flat mappings of at most n entries over the composite keys CK, in
\* every insertion order
RECURSIVE FlatMaps(_, _)
FlatMaps(CK, n) ==
    IF n = 0 THEN {<<>>}
    ELSE LET S == FlatMaps(CK, n - 1)
         IN  S \cup UNION {{Append(f, <<k, t>>) :
                               k \in CK \ DictKeys(f), t \in FlatTexts} : f \in S}

Orders(flat) ==
    {[i \in 1..Len(flat) |-> flat[p[i]]] :
        p \in {q \in [1..Len(flat) -> 1..Len(flat)] :
                  \A i, j \in 1..Len(flat) : q[i] = q[j] => i = j}}

----------------------------------------------------------------------------
(* Specification of the round trip: flatten_json, then unflatten_json *)

flatIdle ==
    /\ nested_json = <<>> /\ flattened_dict = <<>> /\ reordered = <<>>
    /\ unflat = None /\ unflat2 = None

codeIdle == json_filename = <<>> /\ code_name = <<>>

runIdle ==
    /\ ref = <<>> /\ tgt = <<>> /\ ref_flat = <<>> /\ tgt_flat = <<>>
    /\ missing_keys = {} /\ todo = {} /\ key = <<>>
    /\ proposal_google = "" /\ typed = "" /\ proposal = "" /\ calls = 0 /\ failures = 0 /\ prompts = 0
    /\ processed = <<>> /\ out_file = None /\ writes = 0 /\ exit_status = None

InitFlatten ==
    /\ pc = "flatten"
    /\ nested_json \in Docs
    /\ flattened_dict = <<>> /\ reordered = <<>>
    /\ unflat = None /\ unflat2 = None
    /\ codeIdle /\ runIdle

Flatten ==
    /\ pc = "flatten"
    /\ flattened_dict' = flatten_json(nested_json, <<>>)
    /\ pc' = "unflatten"
    /\ UNCHANGED <<nested_json, reordered, unflat, unflat2, codeVars, runVars>>

Unflatten ==
    /\ pc = "unflatten"
    /\ unflat' = unflatten_json(flattened_dict)
    /\ pc' = "flat_done"
    /\ UNCHANGED <<nested_json, flattened_dict, reordered, unflat2, codeVars, runVars>>

NextFlatten == Flatten \/ Unflatten

SpecFlatten == InitFlatten /\ [][NextFlatten]_vars

\* C1: for every Locale Document d without the separator in a key,
\* unflatten_json(flatten_json(d)) completes and equals d.
RoundTripLaw ==
    (pc = "flat_done" /\ NoSepKeys(nested_json)) =>
        (IsOk(unflat) /\ DictEq(unflat[2], nested_json))

----------------------------------------------------------------------------
(* Specification of unflatten_json on one flat mapping in two orders *)

InitUnflatten ==
    /\ pc = "order1"
    /\ flattened_dict \in FlatMaps(CompositeKeys(MaxParts), MaxEntries)
    /\ reordered = <<>>
    /\ nested_json = <<>>
    /\ unflat = None /\ unflat2 = None
    /\ codeIdle /\ runIdle

UnflattenFirst ==
    /\ pc = "order1"
    /\ unflat' = unflatten_json(flattened_dict)
    /\ pc' = "order2"
    /\ UNCHANGED <<nested_json, flattened_dict, reordered, unflat2, codeVars, runVars>>

UnflattenSecond ==
    /\ pc = "order2"
    /\ \E order \in Orders(flattened_dict) :
          /\ reordered' = order
          /\ unflat2' = unflatten_json(order)
    /\ pc' = "orders_done"
    /\ UNCHANGED <<nested_json, flattened_dict, unflat, codeVars, runVars>>

NextUnflatten == UnflattenFirst \/ UnflattenSecond

SpecUnflatten == InitUnflatten /\ [][NextUnflatten]_vars

IsPrefix(s, t) == Len(s) <= Len(t) /\ \A i \in 1..Len(s) : s[i] = t[i]

\* one composite key names a leaf on the path of another
PrefixConflict(flat) ==
    \E i, j \in 1..Len(flat) :
        /\ i # j
        /\ IsPrefix(Split(flat[i][1], sep), Split(flat[j][1], sep))

\* C7 as stated: every order of every flat mapping with unique composite
\* keys completes and yields the same nested structure.
OrderIndependentAlways ==
    pc = "orders_done" =>
        (IsOk(unflat) /\ IsOk(unflat2) /\ DictEq(unflat[2], unflat2[2]))

\* C7 amended: when no composite key is a separator-prefix of another, every
\* order of the entries completes and yields the same nested structure.
OrderIndependent ==
    (pc = "orders_done" /\ ~PrefixConflict(flattened_dict)) =>
        (IsOk(unflat) /\ IsOk(unflat2) /\ DictEq(unflat[2], unflat2[2]))

OrderIndependentWitness ==
    /\ pc = "orders_done"
    /\ ~PrefixConflict(flattened_dict)
    /\ Len(flattened_dict) = 2
    /\ reordered # flattened_dict
    /\ Len(Split(flattened_dict[1][1], sep)) = 2
    /\ Len(Split(flattened_dict[2][1], sep)) = 2
    /\ flattened_dict[1][1][1] = flattened_dict[2][1][1]
    /\ IsOk(unflat) /\ IsOk(unflat2)

----------------------------------------------------------------------------
(* Locale code resolver *)

lower == <<"a", "b", "c", "d", "e", "f", "g", "h", "i", "j", "k", "l", "m",
           "n", "o", "p", "q", "r", "s", "t", "u", "v", "w", "x", "y", "z">>
upper == <<"A", "B", "C", "D", "E", "F", "G", "H", "I", "J", "K", "L", "M",
           "N", "O", "P", "Q", "R", "S", "T", "U", "V", "W", "X", "Y", "Z">>

\* s.upper()
Upper(s) ==
    [i \in 1..Len(s) |->
        IF \E j \in 1..Len(lower) : lower[j] = s[i]
        THEN upper[CHOOSE j \in 1..Len(lower) : lower[j] = s[i]]
        ELSE s[i]]

lang_map ==
    << <<<<"d", "e">>, <<"d", "e">>>>,
       <<<<"e", "n">>, <<"e", "n">>>>,
       <<<<"e", "s">>, <<"e", "s">>>>,
       <<<<"f", "r">>, <<"f", "r">>>>,
       <<<<"i", "t">>, <<"i", "t">>>>,
       <<<<"k", "o">>, <<"k", "o">>>>,
       <<<<"n", "l">>, <<"n", "l">>>>,
       <<<<"p", "l">>, <<"p", "l">>>>,
       <<<<"p", "t">>, <<"p", "t", "-", "B", "R">>>>,
       <<<<"r", "u">>, <<"r", "u">>>>,
       <<<<"s", "l">>, <<"s", "l">>>>,
       <<<<"s", "v">>, <<"s", "v">>>>,
       <<<<"t", "r">>, <<"t", "r">>>>,
       <<<<"u", "k">>, <<"u", "k">>>>,
       <<<<"v", "i">>, <<"v", "i">>>>,
       <<<<"z", "h", "-", "H", "a", "n", "t">>, <<"z", "h", "-", "T", "W">>>>,
       <<<<"z", "h">>, <<"z", "h", "-", "C", "N">>>> >>

get_code_name(filename) ==
    LET file_parts == Split(Split(filename, ".")[1], "_")
        lang_code == file_parts[1]
        country_code == IF Len(file_parts) > 1 THEN file_parts[2] ELSE <<>>
        mapped == IF DictHas(lang_map, lang_code) THEN DictGet(lang_map, lang_code)
                  ELSE <<>>
    IN  IF country_code # <<>>
        THEN mapped \o <<"-">> \o Upper(country_code)
        ELSE mapped

Dirs == {<<>>, <<".", "/">>}
Langs == DictKeys(lang_map) \cup {<<"x", "x">>, <<>>}
Regions == {<<>>, <<"_">>, <<"_", "B", "R">>, <<"_", "t", "w">>, <<"_", "B", "R", "_", "x">>}
Exts == {<<>>, <<".", "j", "s", "o", "n">>}
Filenames == {d \o l \o r \o e : d \in Dirs, l \in Langs, r \in Regions, e \in Exts}

InitCode ==
    /\ pc = "resolve"
    /\ json_filename \in Filenames
    /\ code_name = <<>>
    /\ flatIdle /\ runIdle

Resolve ==
    /\ pc = "resolve"
    /\ code_name' = get_code_name(json_filename)
    /\ pc' = "resolved"
    /\ UNCHANGED <<json_filename, flatVars, runVars>>

NextCode == Resolve

SpecCode == InitCode /\ [][NextCode]_vars

\* C2: get_code_name gives "pt-BR" for "pt_BR.json", "zh-CN" for "zh.json"
\* and "" for "xx.json".
ResolveExamples ==
    pc = "resolved" =>
        /\ json_filename = <<"p", "t", "_", "B", "R", ".", "j", "s", "o", "n">>
              => code_name = <<"p", "t", "-", "B", "R">>
        /\ json_filename = <<"z", "h", ".", "j", "s", "o", "n">>
              => code_name = <<"z", "h", "-", "C", "N">>
        /\ json_filename = <<"x", "x", ".", "j", "s", "o", "n">>
              => code_name = <<>>

\* the part before the first "_" of the name with its extension stripped
LanguageSegment(filename) == Split(Split(filename, ".")[1], "_")[1]

\* C6: a filename whose language segment is not in the lookup table resolves
\* to the empty string, with or without a region segment.
UnknownResolvesEmpty ==
    (pc = "resolved" /\ ~DictHas(lang_map, LanguageSegment(json_filename)))
        => code_name = <<>>

----------------------------------------------------------------------------
(* The run of the script: diff, interactive merge loop, output *)

\* the difference taken the wrong way round
MissingKeysSwapped(rf, tf) == DictKeys(tf) \ DictKeys(rf)

\* set(ref_flat.keys()) - set(tgt_flat.keys())
MissingKeys(rf, tf) == DictKeys(rf) \ DictKeys(tf)

\* the test on the input inverted
AcceptedInverted(input, candidate) == IF input # "" THEN candidate ELSE input

\* the value kept for a key: the operator's input, or the candidate when
\* the input is empty
Accepted(input, candidate) == IF input = "" THEN candidate ELSE input

Exit(code) == <<"exit", code>>
Traceback == <<"traceback">>

Init ==
    /\ pc = "start"
    /\ \E n \in 0..MaxRunNodes :
          /\ ref \in DictsUpTo(RunKeyNames, RefTexts, n)
          /\ tgt \in DictsUpTo(RunKeyNames, TgtTexts, MaxRunNodes - n)
    /\ ref_flat = <<>> /\ tgt_flat = <<>>
    /\ missing_keys = {} /\ todo = {} /\ key = <<>>
    /\ proposal_google = "" /\ typed = "" /\ proposal = ""
    /\ calls = 0 /\ failures = 0 /\ prompts = 0 /\ processed = <<>>
    /\ out_file = None /\ writes = 0 /\ exit_status = None
    /\ flatIdle /\ codeIdle

\* the diff without the exit(): an empty difference falls through to the
\* output step
DiffNoExit ==
    /\ pc = "start"
    /\ ref_flat' = flatten_json(ref, <<>>)
    /\ tgt_flat' = flatten_json(tgt, <<>>)
    /\ missing_keys' = MissingKeys(ref_flat', tgt_flat')
    /\ todo' = missing_keys'
    /\ pc' = IF missing_keys' = {} THEN "write" ELSE "loop"
    /\ UNCHANGED <<ref, tgt, key, proposal_google, typed, proposal, calls,
                   failures, prompts, processed, out_file, writes, exit_status,
                   flatVars, codeVars>>

\* load, flatten, diff; exit() when nothing is missing
Diff ==
    /\ pc = "start"
    /\ ref_flat' = flatten_json(ref, <<>>)
    /\ tgt_flat' = flatten_json(tgt, <<>>)
    /\ missing_keys' = MissingKeys(ref_flat', tgt_flat')
    /\ todo' = missing_keys'
    /\ IF missing_keys' = {}
       THEN pc' = "exited" /\ exit_status' = Exit(0)
       ELSE pc' = "loop" /\ exit_status' = exit_status
    /\ UNCHANGED <<ref, tgt, key, proposal_google, typed, proposal, calls,
                   failures, prompts, processed, out_file, writes, flatVars, codeVars>>

\* the next key of the loop and its translation call, which returns
TranslateOk ==
    /\ pc = "loop"
    /\ \E k \in todo : key' = k
    /\ \E t \in Candidates : proposal_google' = t
    /\ calls' = calls + 1
    /\ pc' = "prompt"
    /\ UNCHANGED <<ref, tgt, ref_flat, tgt_flat, missing_keys, todo, typed,
                   proposal, failures, prompts, processed, out_file, writes, exit_status,
                   flatVars, codeVars>>

\* the failure caught: the loop goes on with an empty candidate
TranslateFailCaught ==
    /\ pc = "loop"
    /\ \E k \in todo : key' = k
    /\ calls' = calls + 1
    /\ failures' = failures + 1
    /\ proposal_google' = ""
    /\ pc' = "prompt"
    /\ UNCHANGED <<ref, tgt, ref_flat, tgt_flat, missing_keys, todo, typed,
                   proposal, prompts, processed, out_file, writes, exit_status,
                   flatVars, codeVars>>

\* the next key of the loop and its translation call, which raises
TranslateFail ==
    /\ pc = "loop"
    /\ \E k \in todo : key' = k
    /\ calls' = calls + 1
    /\ failures' = failures + 1
    /\ pc' = "aborted"
    /\ exit_status' = Traceback
    /\ UNCHANGED <<ref, tgt, ref_flat, tgt_flat, missing_keys, todo,
                   proposal_google, typed, proposal, prompts, processed,
                   out_file, writes, flatVars, codeVars>>

\* the operator's answer and the store into tgt_flat
Prompt ==
    /\ pc = "prompt"
    /\ \E input \in Inputs :
          /\ typed' = input
          /\ proposal' = Accepted(input, proposal_google)
    /\ tgt_flat' = DictSet(tgt_flat, key, proposal')
    /\ prompts' = prompts + 1
    /\ processed' = Append(processed, key)
    /\ todo' = todo \ {key}
    /\ pc' = IF todo' = {} THEN "write" ELSE "loop"
    /\ UNCHANGED <<ref, tgt, ref_flat, missing_keys, key, proposal_google,
                   calls, failures, out_file, writes, exit_status, flatVars, codeVars>>

\* unflatten both mappings and dump the target one
WriteProposed ==
    /\ pc = "write"
    /\ LET ref_unflat == unflatten_json(ref_flat)
           tgt_unflat == unflatten_json(tgt_flat)
       IN  IF IsOk(ref_unflat) /\ IsOk(tgt_unflat)
           THEN /\ out_file' = tgt_unflat
                /\ writes' = writes + 1
                /\ pc' = "done"
                /\ exit_status' = Exit(0)
           ELSE /\ pc' = "crashed"
                /\ exit_status' = Traceback
                /\ UNCHANGED <<out_file, writes>>
    /\ UNCHANGED <<ref, tgt, ref_flat, tgt_flat, missing_keys, todo, key,
                   proposal_google, typed, proposal, calls, failures, prompts, processed,
                   flatVars, codeVars>>

Next == Diff \/ TranslateOk \/ TranslateFail \/ Prompt \/ WriteProposed

Spec == Init /\ [][Next]_vars

----------------------------------------------------------------------------
(* Properties of the run *)

RefFlat0 == flatten_json(ref, <<>>)
TgtFlat0 == flatten_json(tgt, <<>>)

\* C3: the step that answers the prompt stores, under the key displayed, the
\* candidate when the input is empty and the input otherwise, and writes no
\* other key of the target flat mapping.
StoreAccepted ==
    [][pc = "prompt" =>
          /\ key \in missing_keys
          /\ DictHas(tgt_flat', key)
          /\ DictGet(tgt_flat', key) = (IF typed' = "" THEN proposal_google ELSE typed')
          /\ DictKeys(tgt_flat') = DictKeys(tgt_flat) \cup {key}
          /\ \A k \in DictKeys(tgt_flat) \ {key} :
                DictGet(tgt_flat', k) = DictGet(tgt_flat, k)]_vars

StoreAcceptedWitness ==
    /\ pc \in {"loop", "write"}
    /\ typed = "u"
    /\ DictHas(tgt_flat, key) /\ DictGet(tgt_flat, key) = "u"
    /\ \E k \in missing_keys \ {key} :
          DictHas(tgt_flat, k) /\ DictGet(tgt_flat, k) \in Candidates

\* C4: when every key of the flattened reference is a key of the flattened
\* target, the run makes no translation call and no prompt, exits at once
\* with success and writes no output file.
NothingMissingExits ==
    (pc # "start" /\ DictKeys(RefFlat0) \subseteq DictKeys(TgtFlat0)) =>
        /\ pc = "exited"
        /\ exit_status = Exit(0)
        /\ calls = 0 /\ prompts = 0
        /\ writes = 0 /\ out_file = None

NothingMissingWitness ==
    /\ pc = "exited"
    /\ ref_flat # <<>>
    /\ DictKeys(ref_flat) = DictKeys(tgt_flat)

\* C5: once a translation call has failed the run is aborted: no step
\* follows (no prompt, no further call), and no output file is or was
\* written, so what was confirmed before is lost.
AbortOnFailure ==
    /\ [](failures > 0 =>
            /\ pc = "aborted"
            /\ exit_status = Traceback
            /\ writes = 0 /\ out_file = None)
    /\ [][failures = 0]_vars

AbortOnFailureWitness ==
    /\ failures > 0
    /\ Len(processed) >= 1
    /\ Cardinality(todo) >= 2

\* C8: the missing-key set is empty exactly when every composite key of the
\* flattened reference appears in the flattened target, and it is the set
\* of the reference keys that the target lacks, whatever the values and the
\* order of the entries.
MissingEmptyIff ==
    pc # "start" =>
        /\ (missing_keys = {}) <=>
              (\A i \in 1..Len(RefFlat0) : \E j \in 1..Len(TgtFlat0) :
                    TgtFlat0[j][1] = RefFlat0[i][1])
        /\ \A k \in DictKeys(RefFlat0) \cup DictKeys(TgtFlat0) :
              (k \in missing_keys) <=>
                 (DictHas(RefFlat0, k) /\ ~DictHas(TgtFlat0, k))
        /\ missing_keys \subseteq DictKeys(RefFlat0)

MissingEmptyIffWitness ==
    /\ pc = "loop"
    /\ missing_keys # {}
    /\ DictKeys(tgt_flat) \cap DictKeys(ref_flat) # {}

\* C9: a run in which no translation call fails processes every missing key
\* exactly once, with one call and one prompt each, and then writes the
\* output file exactly once.
CleanRunWritesOnce ==
    (failures = 0 /\ pc \in {"done", "crashed"}) =>
        /\ pc = "done"
        /\ writes = 1 /\ IsOk(out_file)
        /\ calls = Cardinality(missing_keys)
        /\ prompts = Cardinality(missing_keys)
        /\ Len(processed) = Cardinality(missing_keys)
        /\ {processed[i] : i \in 1..Len(processed)} = missing_keys

\* C10: the output document of a completed run flattens to the original
\* flattened target extended with the missing keys and their accepted
\* values: the target's entries keep their values and every composite key
\* of the reference is present.
MergedOutput ==
    pc = "done" =>
        LET out == flatten_json(out_file[2], <<>>)
        IN  /\ DictKeys(out) = DictKeys(TgtFlat0) \cup missing_keys
            /\ \A k \in DictKeys(TgtFlat0) :
                  DictHas(out, k) /\ DictGet(out, k) = DictGet(TgtFlat0, k)
            /\ \A k \in DictKeys(RefFlat0) : DictHas(out, k)
            /\ \A k \in missing_keys :
                  DictHas(out, k) /\ DictGet(out, k) = DictGet(tgt_flat, k)

====
